---- MODULE Spec2Model ----
(***************************************************************************)
(* CIP-68 course-token service: the transaction builder (mint, update,     *)
(* burn) of src/src/adapters/mesh.adapter.ts driven by the request         *)
(* handlers of src/src/controllers/contract.controller.ts, against a       *)
(* ledger that keeps unspent outputs.                                      *)
(*                                                                         *)
(* The ledger applies the UTxO rules (inputs unspent, positive output      *)
(* quantities, value preserved per unit).  The compiled validators are not *)
(* part of the sources: a submission may always be refused, and no script  *)
(* rule beyond the ledger rules is assumed.  Fees and ADA are not          *)
(* modelled; the wallet is assumed funded and with collateral.             *)
(***************************************************************************)
EXTENDS Integers, Sequences, FiniteSets, TLC

\* ---------------------------------------------------------------- bounds
MaxStarted == 3
MaxOverlap == 1
MaxList == 2
MaxQty == 1

\* ------------------------------------------------------------- constants
Names == {"a", "b"}
StoreAddress == "addr_store"
WalletAddress == "addr_wallet"
OtherAddress == "addr_r"
PkW == "aa11"
PkO == "bb22"
Requests == {1, 2}

NoDatum == [none |-> TRUE]
NoUtxo == [absent |-> TRUE]
NoHash == 0
Null == "null"

\* --------------------------------------------------------------- helpers
RECURSIVE SumSeq(_)
SumSeq(s) == IF s = <<>> THEN 0 ELSE Head(s) + SumSeq(Tail(s))

RECURSIVE SeqOfSet(_)
SeqOfSet(S) ==
    IF S = {} THEN <<>>
    ELSE LET x == CHOOSE y \in S : TRUE IN <<x>> \o SeqOfSet(S \ {x})

Last(s) == s[Len(s)]

Range(s) == {s[i] : i \in 1..Len(s)}

Orders(n) == {p \in [1..n -> 1..n] : \A i, j \in 1..n : i # j => p[i] # p[j]}

\* ------------------------------------------------------------ asset units
\* policyId + CIP68_100(stringToHex(name)) and policyId + CIP68_222(...)
CIP68_100(name) == [label |-> 100, name |-> name]
CIP68_222(name) == [label |-> 222, name |-> name]
Units == {CIP68_100(n) : n \in Names} \cup {CIP68_222(n) : n \in Names}

\* deserializeAddress(address).pubKeyHash
pubKeyHash(address) == IF address = WalletAddress THEN PkW ELSE PkO

\* what MeshWallet.getChangeAddress() of the installed SDK returns: the
\* address, or a promise of it (the SDK is not part of the repository; the
\* code awaits the call at controller lines 55 and 149 and at adapter line
\* 129, and uses its value as it is at controller lines 234, 300 and 358)
SdkBuilds == {"string", "promise"}

\* ------------------------------------------------------- bytes and datum
\* A byte string is kept as the text it was made from and how it was made:
\* "hex" are the bytes whose hex form is s, "utf8" the UTF-8 bytes of s.
HexStrings == {PkW, PkO}
IsHex(s) == s \in HexStrings
toBytes(s) == IF IsHex(s) THEN [enc |-> "hex", s |-> s] ELSE [enc |-> "utf8", s |-> s]
toStringUtf8(b) == IF b.enc = "utf8" THEN b.s ELSE "utf8<" \o b.s \o ">"
toStringHex(b) == IF b.enc = "hex" THEN b.s ELSE "hex<" \o b.s \o ">"

M1 == [k \in {"name"} |-> "n1"]
M2 == [k \in {"name", "_pk"} |-> IF k = "_pk" THEN PkW ELSE "n1"]
M3 == [k \in {"image", "_pk"} |-> IF k = "_pk" THEN PkO ELSE "i1"]
Metadatas == {M1, M2, M3}

\* metadataToCip68(metadata): constructor 0 of <<map, version>>
metadataToCip68(metadata) ==
    [alternative |-> 0,
     map |-> [kb \in {toBytes(k) : k \in DOMAIN metadata} |->
                 toBytes(metadata[CHOOSE k \in DOMAIN metadata : toBytes(k) = kb])],
     version |-> 1]

convertDatum(datum, contain_pk) ==
    LET keys == {toStringUtf8(kb) : kb \in DOMAIN datum.map}
        kept == {k \in keys : ~(k = "_pk" /\ ~contain_pk)}
        val(k) == datum.map[CHOOSE kb \in DOMAIN datum.map : toStringUtf8(kb) = k]
    IN [k \in kept |-> IF k # "_pk" THEN toStringUtf8(val(k)) ELSE toStringHex(val(k))]

getPkHash(datum) ==
    IF \E kb \in DOMAIN datum.map : toStringUtf8(kb) = "_pk"
    THEN toStringHex(datum.map[CHOOSE kb \in DOMAIN datum.map : toStringUtf8(kb) = "_pk"])
    ELSE Null

\* ------------------------------------------------------------------ state
\* ledger: the unspent outputs, oldest first; txCount: transactions accepted;
\* pc, req: each request's position and frame; started: requests received;
\* last: the last answer a handler gave
\* overlaps: requests received while another one was in progress
VARIABLES ledger, txCount, pc, req, started, overlaps, last, sdk
vars == <<ledger, txCount, pc, req, started, overlaps, last, sdk>>

\* ----------------------------------------------------------- the provider
\* fetcher.fetchAddressUTxOs(address, unit): oldest first
fetchAddressUTxOs(address, unit) ==
    SelectSeq(ledger, LAMBDA u : u.address = address /\ unit \in DOMAIN u.amount)

fetchAddressUTxOsAll(address) ==
    SelectSeq(ledger, LAMBDA u : u.address = address)

\* a slip of line 171: the first UTxO of the list instead of the last
getAddressUTXOAsset_first(address, unit) ==
    LET utxos == fetchAddressUTxOs(address, unit)
    IN IF Len(utxos) = 0 THEN NoUtxo ELSE utxos[1]

getAddressUTXOAsset(address, unit) ==
    LET utxos == fetchAddressUTxOs(address, unit)
    IN IF Len(utxos) = 0 THEN NoUtxo ELSE utxos[Len(utxos)]

getAddressUTXOAssets(address, unit) == fetchAddressUTxOs(address, unit)

\* getUtxoForTx: utxos.find(...) is the first match; NoUtxo stands for the throw
getUtxoForTx(address, txHash) ==
    LET utxos == SelectSeq(fetchAddressUTxOsAll(address), LAMBDA u : u.input.txHash = txHash)
    IN IF Len(utxos) = 0 THEN NoUtxo ELSE utxos[1]

\* meshWallet.getUtxos() as far as tokens are concerned
getWalletUtxos == fetchAddressUTxOsAll(WalletAddress)

\* --------------------------------------------------- transaction builder
EmptyTx == [mints |-> <<>>, ins |-> <<>>, outs |-> <<>>, walletIns |-> {}, completed |-> FALSE]
NoErr == [kind |-> "none"]

\* mConStr0([]) and mConStr1([]): the constructor and its (no) fields
mConStr0 == [alternative |-> 0, fields |-> <<>>]
mConStr1 == [alternative |-> 1, fields |-> <<>>]

MintInstr(quantity, unit, redeemer) ==
    [unit |-> unit, quantity |-> quantity, redeemer |-> redeemer, script |-> "mint"]
TxIn(utxo, redeemer) ==
    [txHash |-> utxo.input.txHash, outputIndex |-> utxo.input.outputIndex,
     redeemer |-> redeemer, script |-> "store"]
TxOut(address, amount, datum) ==
    [address |-> address, amount |-> amount, datum |-> datum]
Asset(unit, quantity) == [unit |-> unit, quantity |-> quantity]

QtyOf(amount, unit) ==
    SumSeq([i \in 1..Len(amount) |-> IF amount[i].unit = unit THEN amount[i].quantity ELSE 0])

RECURSIVE Flatten(_)
Flatten(ss) == IF ss = <<>> THEN <<>> ELSE Head(ss) \o Flatten(Tail(ss))

UtxoQty(utxo, unit) == IF unit \in DOMAIN utxo.amount THEN utxo.amount[unit] ELSE 0

UtxoAt(txHash, outputIndex) ==
    LET m == SelectSeq(ledger, LAMBDA u : u.input.txHash = txHash /\ u.input.outputIndex = outputIndex)
    IN IF Len(m) = 0 THEN NoUtxo ELSE m[1]

Ref(u) == u.input

\* quantity of unit carried by the explicit inputs, by the mints, by the outputs
InSum(tx, unit) ==
    SumSeq([i \in 1..Len(tx.ins) |->
        LET u == UtxoAt(tx.ins[i].txHash, tx.ins[i].outputIndex)
        IN IF u = NoUtxo THEN 0 ELSE UtxoQty(u, unit)])
MintSum(tx, unit) == QtyOf(tx.mints, unit)
OutSum(tx, unit) ==
    SumSeq([i \in 1..Len(tx.outs) |-> QtyOf(tx.outs[i].amount, unit)])

\* unsignedTx.selectUtxosFrom(utxos)...complete(): wallet inputs are selected
\* for the units the outputs still need, the rest goes back as change.
Need(tx, unit) == OutSum(tx, unit) - MintSum(tx, unit) - InSum(tx, unit)

Selected(tx, utxos) ==
    {i \in 1..Len(utxos) : \E unit \in DOMAIN utxos[i].amount : Need(tx, unit) > 0}

SelSum(tx, utxos, unit) ==
    LET sel == SeqOfSet(Selected(tx, utxos))
    IN SumSeq([i \in 1..Len(sel) |-> UtxoQty(utxos[sel[i]], unit)])

CanComplete(tx, utxos) ==
    \A unit \in Units : Need(tx, unit) <= SelSum(tx, utxos, unit)

complete(tx, utxos) ==
    LET left(unit) == SelSum(tx, utxos, unit) - Need(tx, unit)
        chg == SelectSeq(SeqOfSet(Units), LAMBDA unit : left(unit) > 0)
        change == [i \in 1..Len(chg) |-> Asset(chg[i], left(chg[i]))]
    IN [tx EXCEPT !.walletIns = {Ref(utxos[i]) : i \in Selected(tx, utxos)},
                  !.outs = IF change = <<>> THEN @ ELSE Append(@, TxOut(WalletAddress, change, NoDatum)),
                  !.completed = TRUE]

\* ------------------------------------------------------------- the ledger
TxRefs(tx) == {[txHash |-> tx.ins[i].txHash, outputIndex |-> tx.ins[i].outputIndex] : i \in 1..Len(tx.ins)}
             \cup tx.walletIns

Unspent(ref) == \E i \in 1..Len(ledger) : ledger[i].input = ref

WalletInSum(tx, unit) ==
    LET sel == SelectSeq(ledger, LAMBDA u : u.input \in tx.walletIns)
    IN SumSeq([i \in 1..Len(sel) |-> UtxoQty(sel[i], unit)])

\* a ledger that takes every completed transaction, spent inputs or not
LedgerValid_anyCompleted(tx) == tx.completed

\* the rules every node applies: inputs unspent and distinct, outputs and
\* mint entries well formed, value preserved unit by unit
LedgerValid(tx) ==
    /\ tx.completed
    /\ \A ref \in TxRefs(tx) : Unspent(ref)
    /\ Cardinality(TxRefs(tx)) = Len(tx.ins) + Cardinality(tx.walletIns)
    /\ \A i \in 1..Len(tx.outs) : \A j \in 1..Len(tx.outs[i].amount) :
           tx.outs[i].amount[j].quantity > 0
    /\ \A i \in 1..Len(tx.mints) : tx.mints[i].quantity # 0
    /\ \A unit \in Units :
           InSum(tx, unit) + WalletInSum(tx, unit) + MintSum(tx, unit) = OutSum(tx, unit)

Merge(amount) ==
    [unit \in {amount[i].unit : i \in 1..Len(amount)} |-> QtyOf(amount, unit)]

ApplyTx(tx, txHash) ==
    SelectSeq(ledger, LAMBDA u : u.input \notin TxRefs(tx))
    \o [i \in 1..Len(tx.outs) |->
          [input |-> [txHash |-> txHash, outputIndex |-> i - 1],
           address |-> tx.outs[i].address,
           amount |-> Merge(tx.outs[i].amount),
           plutusData |-> tx.outs[i].datum]]

\* --------------------------------------------------------------- requests
IdleReq ==
    [op |-> "none", params |-> <<>>, found |-> <<>>, held |-> <<>>, branch |-> "none",
     tx |-> EmptyTx, err |-> NoErr, resp |-> 0, txHash |-> NoHash]

Init ==
    /\ ledger = <<>>
    /\ txCount = 0
    /\ pc = [r \in Requests |-> "idle"]
    /\ req = [r \in Requests |-> IdleReq]
    /\ started = 0
    /\ overlaps = 0
    /\ last = [r |-> 0, rq |-> IdleReq]
    /\ sdk \in SdkBuilds

Free(r) == pc[r] = "idle"

\* a request takes the first free slot (the slots are interchangeable)
Overlapping(r) == \E q \in Requests \ {r} : ~Free(q)

CanStart(r) ==
    /\ Free(r)
    /\ started < MaxStarted
    /\ \A q \in Requests : q < r => ~Free(q)
    /\ Overlapping(r) => overlaps < MaxOverlap

Start(r) ==
    /\ CanStart(r)
    /\ started' = started + 1
    /\ overlaps' = IF Overlapping(r) THEN overlaps + 1 ELSE overlaps

\* what stays of a request once it is answered
Answered(rq, resp) ==
    [IdleReq EXCEPT !.op = rq.op, !.branch = rq.branch, !.resp = resp]

\* the handler's catch: 500 with the error's message, and the request is over
Throw(r, rq, err) ==
    /\ pc' = [pc EXCEPT ![r] = "idle"]
    /\ req' = [req EXCEPT ![r] = IdleReq]
    /\ last' = [r |-> r, rq |-> [rq EXCEPT !.err = err, !.resp = 500]]

\* ------------------------------------------------------------------- mint
MintItems ==
    [assetName : Names, metadata : {M1, M2}, quantity : 1..MaxQty, receiver : {"", OtherAddress}]
ListItems ==
    [assetName : Names, metadata : {M2}, quantity : {1}, receiver : {"", OtherAddress}]
\* lists of several items are taken up to the order of their items (the
\* callbacks of a list run in every order anyway)
Rank(it) == (IF it.assetName = "a" THEN 0 ELSE 2) + (IF it.receiver = "" THEN 0 ELSE 1)
MintParams ==
    {<<it>> : it \in MintItems} \cup
    {l \in UNION {[1..n -> ListItems] : n \in 2..MaxList} :
        \A i \in 1..(Len(l) - 1) : Rank(l[i]) <= Rank(l[i + 1])}

hasPlutusData(utxo) == utxo # NoUtxo /\ utxo.plutusData # NoDatum

assetsWithUtxo(params) ==
    [i \in 1..Len(params) |->
        hasPlutusData(getAddressUTXOAsset(StoreAddress, CIP68_100(params[i].assetName)))]

allExist(found) == \A i \in 1..Len(found) : found[i]
\* a slip of line 347: "some" where "every" is meant
allNew_some(found) == \E i \in 1..Len(found) : ~found[i]

allNew(found) == \A i \in 1..Len(found) : ~found[i]

existAssets(params, found) ==
    LET idx == SelectSeq([i \in 1..Len(params) |-> i], LAMBDA i : found[i])
    IN [i \in 1..Len(idx) |-> params[idx[i]].assetName]

MixedError(params, found) == [kind |-> "mixed", names |-> existAssets(params, found)]

\* lines 327-354: wallet, lookups of every asset, the new-or-existing decision
MintLookup(r, params) ==
    /\ Start(r)
    /\ LET found == assetsWithUtxo(params)
           rq == [IdleReq EXCEPT !.op = "mint", !.params = params, !.found = found]
       IN IF ~allExist(found) /\ ~allNew(found)
          THEN Throw(r, rq, MixedError(params, found))
          ELSE /\ pc' = [pc EXCEPT ![r] = "looked"]
               /\ req' = [req EXCEPT ![r] = rq]
               /\ last' = last
    /\ UNCHANGED <<ledger, txCount, sdk>>

\* a slip of lines 367 and 387: the empty receiver is not replaced by the wallet
receiverKey_noDefault(item) == item.receiver

receiverKey(item) == IF item.receiver # "" THEN item.receiver ELSE WalletAddress

RECURSIVE Dedup(_)
Dedup(s) ==
    IF s = <<>> THEN <<>>
    ELSE <<Head(s)>> \o Dedup(SelectSeq(Tail(s), LAMBDA x : x # Head(s)))

\* a slip of lines 368-380 and 388-400: every item gets an output of its own
ReceiverOuts_perItem(items) ==
    [i \in 1..Len(items) |->
        TxOut(receiverKey(items[i]),
              <<Asset(CIP68_222(items[i].assetName), items[i].quantity)>>, NoDatum)]

\* txOutReceiverMap after every callback ran, as the outputs of lines 427-429
ReceiverOuts(items) ==
    LET keys == Dedup([i \in 1..Len(items) |-> receiverKey(items[i])])
        mine(k) == SelectSeq(items, LAMBDA it : receiverKey(it) = k)
    IN [i \in 1..Len(keys) |->
          TxOut(keys[i],
                [j \in 1..Len(mine(keys[i])) |->
                    Asset(CIP68_222(mine(keys[i])[j].assetName), mine(keys[i])[j].quantity)],
                NoDatum)]

\* lines 381-385
ExistingMints(item) ==
    <<MintInstr(item.quantity, CIP68_222(item.assetName), mConStr0)>>

\* lines 402-412
NewMints(item) ==
    <<MintInstr(item.quantity, CIP68_222(item.assetName), mConStr0),
      MintInstr(1, CIP68_100(item.assetName), mConStr0)>>

\* lines 413-419
NewStoreOut(item) ==
    TxOut(StoreAddress, <<Asset(CIP68_100(item.assetName), 1)>>, metadataToCip68(item.metadata))

MintTx(items, exist) ==
    [EmptyTx EXCEPT
        !.mints = Flatten([i \in 1..Len(items) |->
                     IF exist THEN ExistingMints(items[i]) ELSE NewMints(items[i])]),
        !.outs = (IF exist THEN <<>> ELSE [i \in 1..Len(items) |-> NewStoreOut(items[i])])
                 \o ReceiverOuts(items)]

\* a slip of line 364: a datum without _pk passes the ownership check
OwnerError_nullPasses(item) ==
    LET utxo == getAddressUTXOAsset(StoreAddress, CIP68_100(item.assetName))
    IN IF ~hasPlutusData(utxo) THEN [kind |-> "TypeError"]
       ELSE IF getPkHash(utxo.plutusData) \notin {Null, pubKeyHash(WalletAddress)}
            THEN [kind |-> "exists", name |-> item.assetName]
            ELSE NoErr

\* lines 358-366: the error an item's callback throws on the existing path
OwnerError(item) ==
    LET utxo == getAddressUTXOAsset(StoreAddress, CIP68_100(item.assetName))
    IN IF ~hasPlutusData(utxo) THEN [kind |-> "TypeError"]
       ELSE IF getPkHash(utxo.plutusData) # pubKeyHash(WalletAddress)
            THEN [kind |-> "exists", name |-> item.assetName]
            ELSE NoErr

\* lines 356-442: the callbacks run in some order, then the transaction is completed
MintBuild(r) ==
    /\ pc[r] = "looked"
    /\ \E ord \in Orders(Len(req[r].params)) :
         LET items == [i \in 1..Len(req[r].params) |-> req[r].params[ord[i]]]
             exist == allExist(req[r].found)
             bad == SelectSeq(items, LAMBDA it : OwnerError(it) # NoErr)
             tx == MintTx(items, exist)
         IN IF exist /\ bad # <<>>
            THEN Throw(r, Answered(req[r], 0), OwnerError(bad[1]))
            ELSE IF ~CanComplete(tx, getWalletUtxos)
            THEN Throw(r, Answered(req[r], 0), [kind |-> "complete"])
            ELSE /\ pc' = [pc EXCEPT ![r] = "built"]
                 /\ req' = [req EXCEPT ![r].tx = complete(tx, getWalletUtxos),
                                        ![r].branch = IF exist THEN "existing" ELSE "new"]
                 /\ last' = last
    /\ UNCHANGED <<ledger, txCount, started, overlaps, sdk>>

\* ----------------------------------------------------------------- update
TxHashes == {NoHash}

UpdateParams ==
    {<<it>> : it \in [assetName : Names, metadata : {M1, M3}, txHash : TxHashes]}

\* lines 465-470 and 543-548: by transaction hash when one is given, else by asset
storeUtxoOf(item) ==
    IF item.txHash # NoHash
    THEN getUtxoForTx(StoreAddress, item.txHash)
    ELSE getAddressUTXOAsset(StoreAddress, CIP68_100(item.assetName))

StoreError(item) ==
    IF storeUtxoOf(item) # NoUtxo THEN NoErr
    ELSE IF item.txHash # NoHash THEN [kind |-> "NoUtxoForTx"]
    ELSE [kind |-> "StoreUtxoNotFound"]

\* lines 472-485
UpdateTx(items) ==
    [EmptyTx EXCEPT
        !.ins = [i \in 1..Len(items) |-> TxIn(storeUtxoOf(items[i]), mConStr0)],
        !.outs = [i \in 1..Len(items) |->
                    TxOut(StoreAddress, <<Asset(CIP68_100(items[i].assetName), 1)>>,
                          metadataToCip68(items[i].metadata))]]

\* lines 460-503
UpdateBuild(r, params) ==
    /\ Start(r)
    /\ \E ord \in Orders(Len(params)) :
         LET items == [i \in 1..Len(params) |-> params[ord[i]]]
             rq == [IdleReq EXCEPT !.op = "update", !.params = params]
             bad == SelectSeq(items, LAMBDA it : StoreError(it) # NoErr)
         IN IF bad # <<>>
            THEN Throw(r, Answered(rq, 0), StoreError(bad[1]))
            ELSE IF ~CanComplete(UpdateTx(items), getWalletUtxos)
            THEN Throw(r, Answered(rq, 0), [kind |-> "complete"])
            ELSE /\ pc' = [pc EXCEPT ![r] = "built"]
                 /\ req' = [req EXCEPT ![r] =
                              [rq EXCEPT !.tx = complete(UpdateTx(items), getWalletUtxos),
                                         !.branch = "update"]]
                 /\ last' = last
    /\ UNCHANGED <<ledger, txCount, sdk>>

\* ------------------------------------------------------------------- burn
BurnQuantities == {q \in (0 - MaxQty)..MaxQty : q # 0}

BurnParams ==
    {<<it>> : it \in [assetName : Names, quantity : BurnQuantities, txHash : TxHashes]}

\* lines 528-542: the user tokens of the asset held at the wallet address
heldAmount(assetName) ==
    LET userUtxos == getAddressUTXOAssets(WalletAddress, CIP68_222(assetName))
    IN SumSeq([i \in 1..Len(userUtxos) |-> UtxoQty(userUtxos[i], CIP68_222(assetName))])

\* line 551
isFullBurn(quantity, amount) == (0 - quantity) = amount

\* a slip of line 560: the reference token is burnt under mint's redeemer
FullBurnMints_mintRedeemer(item) ==
    <<MintInstr(item.quantity, CIP68_222(item.assetName), mConStr1),
      MintInstr(0 - 1, CIP68_100(item.assetName), mConStr0)>>

\* lines 552-567
FullBurnMints(item) ==
    <<MintInstr(item.quantity, CIP68_222(item.assetName), mConStr1),
      MintInstr(0 - 1, CIP68_100(item.assetName), mConStr1)>>

\* lines 569-573
PartialBurnMints(item) ==
    <<MintInstr(item.quantity, CIP68_222(item.assetName), mConStr1)>>

\* lines 575-580
PartialBurnOut(item, amount) ==
    TxOut(WalletAddress, <<Asset(CIP68_222(item.assetName), amount + item.quantity)>>, NoDatum)

BurnTx(items) ==
    LET full(it) == isFullBurn(it.quantity, heldAmount(it.assetName))
    IN [EmptyTx EXCEPT
        !.mints = Flatten([i \in 1..Len(items) |->
                     IF full(items[i]) THEN FullBurnMints(items[i]) ELSE PartialBurnMints(items[i])]),
        !.ins = Flatten([i \in 1..Len(items) |->
                     IF full(items[i]) THEN <<TxIn(storeUtxoOf(items[i]), mConStr1)>> ELSE <<>>]),
        !.outs = Flatten([i \in 1..Len(items) |->
                     IF full(items[i]) THEN <<>>
                     ELSE <<PartialBurnOut(items[i], heldAmount(items[i].assetName))>>])]

\* lines 523-599
BurnBuild(r, params) ==
    /\ Start(r)
    /\ \E ord \in Orders(Len(params)) :
         LET items == [i \in 1..Len(params) |-> params[ord[i]]]
             rq == [IdleReq EXCEPT !.op = "burn", !.params = params,
                                   !.held = [i \in 1..Len(params) |-> heldAmount(params[i].assetName)]]
             bad == SelectSeq(items, LAMBDA it : StoreError(it) # NoErr)
         IN IF bad # <<>>
            THEN Throw(r, Answered(rq, 0), StoreError(bad[1]))
            ELSE IF ~CanComplete(BurnTx(items), getWalletUtxos)
            THEN Throw(r, Answered(rq, 0), [kind |-> "complete"])
            ELSE /\ pc' = [pc EXCEPT ![r] = "built"]
                 /\ req' = [req EXCEPT ![r] =
                              [rq EXCEPT !.tx = complete(BurnTx(items), getWalletUtxos),
                                         !.branch = IF \A i \in 1..Len(items) :
                                                          isFullBurn(items[i].quantity,
                                                                     heldAmount(items[i].assetName))
                                                     THEN "full" ELSE "partial"]]
                 /\ last' = last
    /\ UNCHANGED <<ledger, txCount, sdk>>

\* ------------------------------------------- sign, submit, confirm, respond
\* meshWallet.signTx and submitTx: the ledger takes the transaction
SubmitAccept(r) ==
    /\ pc[r] = "built"
    /\ LedgerValid(req[r].tx)
    /\ ledger' = ApplyTx(req[r].tx, txCount + 1)
    /\ txCount' = txCount + 1
    /\ pc' = [pc EXCEPT ![r] = "await"]
    /\ req' = [req EXCEPT ![r] = [Answered(req[r], 0) EXCEPT !.txHash = txCount + 1]]
    /\ UNCHANGED <<started, overlaps, last, sdk>>

\* submitTx throws: a rule of the ledger or of a script refuses it, or the network fails
SubmitFail(r) ==
    /\ pc[r] = "built"
    /\ Throw(r, Answered(req[r], 0), [kind |-> "submit"])
    /\ UNCHANGED <<ledger, txCount, started, overlaps, sdk>>

\* onTxConfirmed fires and the handler answers 200
Confirm(r) ==
    /\ pc[r] = "await"
    /\ pc' = [pc EXCEPT ![r] = "idle"]
    /\ req' = [req EXCEPT ![r] = IdleReq]
    /\ last' = [r |-> r, rq |-> Answered(req[r], 200)]
    /\ UNCHANGED <<ledger, txCount, started, overlaps, sdk>>

Next ==
    \E r \in Requests :
        \/ \E params \in MintParams : MintLookup(r, params)
        \/ MintBuild(r)
        \/ \E params \in UpdateParams : UpdateBuild(r, params)
        \/ \E params \in BurnParams : BurnBuild(r, params)
        \/ SubmitAccept(r)
        \/ SubmitFail(r)
        \/ Confirm(r)

Spec == Init /\ [][Next]_vars

\* ----------------------------------------------------- reading the ledger
TotalIn(L, unit) == SumSeq([i \in 1..Len(L) |-> UtxoQty(L[i], unit)])

HeldIn(L, address, unit) ==
    SumSeq([i \in 1..Len(L) |-> IF L[i].address = address THEN UtxoQty(L[i], unit) ELSE 0])

HoldersIn(L, address, unit) ==
    SelectSeq(L, LAMBDA u : u.address = address /\ unit \in DOMAIN u.amount)

CreatedBy(L, txHash) == SelectSeq(L, LAMBDA u : u.input.txHash = txHash)

\* the asset has a reference-token UTxO with a datum at the store address
HasReference(L, name) ==
    \E i \in 1..Len(L) :
        /\ L[i].address = StoreAddress
        /\ CIP68_100(name) \in DOMAIN L[i].amount
        /\ L[i].plutusData # NoDatum

\* the _pk a reader decodes from the newest reference UTxO of the asset
StoredPk(L, name) ==
    LET refs == HoldersIn(L, StoreAddress, CIP68_100(name))
    IN IF refs = <<>> \/ Last(refs).plutusData = NoDatum THEN "missing"
       ELSE LET obj == convertDatum(Last(refs).plutusData, TRUE)
            IN IF "_pk" \in DOMAIN obj THEN obj["_pk"] ELSE "missing"

Mixed(L, params) ==
    /\ \E i \in 1..Len(params) : HasReference(L, params[i].assetName)
    /\ \E i \in 1..Len(params) : ~HasReference(L, params[i].assetName)

\* ------------------------------------------------------------------ claims

\* C1: a mint whose list mixes assets that have a reference UTxO with a datum
\* at the store address and assets that have none is answered by the error
\* naming the existing assets, with nothing added to the transaction under
\* construction, nothing completed and nothing submitted.
C1_MixedMintThrows ==
    [][\A r \in Requests :
         LET looked == pc[r] = "idle" /\ pc'[r] = "looked"
             thrown == /\ started' = started + 1
                       /\ pc[r] = "idle" /\ pc' = pc
                       /\ last'.r = r /\ last'.rq.op = "mint"
             params == IF looked THEN req'[r].params ELSE last'.rq.params
             named == SelectSeq([i \in 1..Len(params) |-> params[i].assetName],
                                LAMBDA n : HasReference(ledger, n))
         IN (looked \/ thrown) /\ Mixed(ledger, params) =>
              /\ thrown
              /\ last'.rq.resp = 500
              /\ last'.rq.err = [kind |-> "mixed", names |-> named]
              /\ last'.rq.tx = EmptyTx
              /\ ledger' = ledger /\ txCount' = txCount]_vars

C1_Witness ==
    /\ last.rq.op = "mint"
    /\ last.rq.err.kind = "mixed"
    /\ Len(last.rq.params) = 2
    /\ last.rq.err.names # <<>>
    /\ Len(last.rq.err.names) < Len(last.rq.params)

\* C2: on the existing path mint completes a transaction only if the _pk of
\* every asset's stored datum is the wallet's public-key hash; when one
\* differs or is missing mint throws, and nothing is completed or submitted.
C2_OnlyOwnerMintsExisting ==
    [][\A r \in Requests :
         (/\ pc[r] = "looked" /\ pc'[r] # "looked"
          /\ \A i \in 1..Len(req[r].found) : req[r].found[i]) =>
            LET owner == \A i \in 1..Len(req[r].params) :
                            StoredPk(ledger, req[r].params[i].assetName) = pubKeyHash(WalletAddress)
            IN /\ pc'[r] = "built" => owner /\ req'[r].tx.completed
               /\ ~owner => /\ pc'[r] = "idle"
                            /\ last'.r = r /\ last'.rq.resp = 500
                            /\ last'.rq.err.kind \in {"exists", "TypeError"}
                            /\ ~last'.rq.tx.completed
                            /\ ledger' = ledger /\ txCount' = txCount]_vars

C2_Witness ==
    /\ last.rq.op = "mint"
    /\ last.rq.err.kind = "exists"
    /\ last.rq.resp = 500

\* C3: whatever metadata the caller gives, the datum mint writes with a new
\* reference token has a _pk field equal to the issuer's public-key hash.
C3_NewDatumHasIssuerPk ==
    \A r \in Requests :
        pc[r] = "built" /\ req[r].op = "mint" /\ req[r].branch = "new" =>
            \A i \in 1..Len(req[r].tx.outs) :
                req[r].tx.outs[i].address = StoreAddress =>
                    LET obj == convertDatum(req[r].tx.outs[i].datum, TRUE)
                    IN "_pk" \in DOMAIN obj /\ obj["_pk"] = pubKeyHash(WalletAddress)

\* where the user tokens of an item are to go
EffectiveReceiver(it) == IF it.receiver = "" THEN WalletAddress ELSE it.receiver

\* the items of a mint list that name this asset and go to this address
SameTarget(params, name, address) ==
    SelectSeq(params, LAMBDA it : it.assetName = name /\ EffectiveReceiver(it) = address)

\* C4: an accepted mint of new assets leaves, for every item, an output at
\* the store address holding exactly one reference token of the asset and the
\* item's metadata as inline datum, and an output at the item's receiver (the
\* wallet when the receiver is empty) holding the requested user tokens.
C4_NewMintOutputs ==
    [][\A r \in Requests :
         (/\ pc[r] = "built" /\ pc'[r] = "await"
          /\ req[r].op = "mint"
          /\ \A i \in 1..Len(req[r].found) : ~req[r].found[i]) =>
            LET made == CreatedBy(ledger', txCount')
            IN \A i \in 1..Len(req[r].params) :
                 LET it == req[r].params[i]
                     wanted == SameTarget(req[r].params, it.assetName, EffectiveReceiver(it))
                 IN /\ \E j \in 1..Len(made) :
                         /\ made[j].address = StoreAddress
                         /\ DOMAIN made[j].amount = {CIP68_100(it.assetName)}
                         /\ made[j].amount[CIP68_100(it.assetName)] = 1
                         /\ made[j].plutusData # NoDatum
                         /\ convertDatum(made[j].plutusData, TRUE) = it.metadata
                    /\ \E j \in 1..Len(made) :
                         /\ made[j].address = EffectiveReceiver(it)
                         /\ UtxoQty(made[j], CIP68_222(it.assetName)) =
                              SumSeq([k \in 1..Len(wanted) |-> wanted[k].quantity])]_vars

C4_Witness ==
    \E r \in Requests :
        /\ pc[r] = "await" /\ req[r].op = "mint" /\ req[r].branch = "new"
        /\ \E i, j \in 1..Len(ledger) :
             /\ ledger[i].input.txHash = req[r].txHash /\ ledger[i].address = StoreAddress
             /\ ledger[j].input.txHash = req[r].txHash /\ ledger[j].address = WalletAddress

\* C5: an asset has a reference token at the store address exactly when a
\* positive quantity of its user token exists.
C5_ReferenceIffUserTokens ==
    \A n \in Names :
        HeldIn(ledger, StoreAddress, CIP68_100(n)) > 0 <=> TotalIn(ledger, CIP68_222(n)) > 0

\* C6: the reference token of an asset has total quantity 0 or 1 and sits in
\* at most one UTxO at the store address.
C6_ReferenceIsSingleton ==
    \A n \in Names :
        /\ TotalIn(ledger, CIP68_100(n)) <= 1
        /\ Len(HoldersIn(ledger, StoreAddress, CIP68_100(n))) <= 1

\* C7: after an accepted update the decoded datum of the reference token is
\* exactly the new metadata plus the _pk the datum had before the update.
C7_UpdateKeepsPk ==
    [][\A r \in Requests :
         (pc[r] = "built" /\ pc'[r] = "await" /\ req[r].op = "update") =>
            \A i \in 1..Len(req[r].params) :
              LET it == req[r].params[i]
                  before == HoldersIn(ledger, StoreAddress, CIP68_100(it.assetName))
                  after == HoldersIn(ledger', StoreAddress, CIP68_100(it.assetName))
                  old == convertDatum(Last(before).plutusData, TRUE)
                  keys == (DOMAIN it.metadata \ {"_pk"}) \cup ({"_pk"} \cap DOMAIN old)
              IN before # <<>> =>
                   /\ after # <<>>
                   /\ convertDatum(Last(after).plutusData, TRUE) =
                        [k \in keys |-> IF k = "_pk" THEN old["_pk"] ELSE it.metadata[k]]]_vars

Abs(x) == IF x < 0 THEN 0 - x ELSE x

\* C8: an accepted burn of the whole quantity the caller holds removes the
\* reference token and the user tokens (the asset is absent again); an
\* accepted burn of less leaves the reference UTxO and its datum as they were
\* and lowers the caller's balance by exactly the burned quantity.
C8_BurnFullOrPartial ==
    [][\A r \in Requests :
         (pc[r] = "built" /\ pc'[r] = "await" /\ req[r].op = "burn") =>
            \A i \in 1..Len(req[r].params) :
              LET it == req[r].params[i]
                  ref == CIP68_100(it.assetName)
                  user == CIP68_222(it.assetName)
                  held == HeldIn(ledger, WalletAddress, user)
              IN /\ Abs(it.quantity) = held =>
                       /\ TotalIn(ledger', ref) = 0
                       /\ TotalIn(ledger', user) = 0
                 /\ Abs(it.quantity) < held =>
                       /\ HoldersIn(ledger', StoreAddress, ref) = HoldersIn(ledger, StoreAddress, ref)
                       /\ HeldIn(ledger', WalletAddress, user) = held - Abs(it.quantity)]_vars

\* C9: burn takes the full branch exactly when the magnitude of the requested
\* quantity equals the quantity the caller holds, whatever its sign, and the
\* partial branch otherwise.
C9_FullBranchByMagnitude ==
    \A r \in Requests :
        pc[r] = "built" /\ req[r].op = "burn" =>
            \A i \in 1..Len(req[r].params) :
              LET it == req[r].params[i]
                  full == \E j \in 1..Len(req[r].tx.mints) :
                             /\ req[r].tx.mints[j].unit = CIP68_100(it.assetName)
                             /\ req[r].tx.mints[j].quantity = 0 - 1
              IN full <=> Abs(it.quantity) = req[r].held[i]

\* C10: a burn destroys the reference token of an asset only when the burned
\* quantity is the whole circulating quantity of its user token.
C10_ReferenceDiesWithLastUserToken ==
    [][\A r \in Requests :
         (pc[r] = "built" /\ pc'[r] = "await" /\ req[r].op = "burn") =>
            \A n \in Names :
              TotalIn(ledger', CIP68_100(n)) < TotalIn(ledger, CIP68_100(n)) =>
                 TotalIn(ledger, CIP68_222(n)) - TotalIn(ledger', CIP68_222(n))
                    = TotalIn(ledger, CIP68_222(n))]_vars

\* ===================================================================== steps
\* The same handlers and builder, one request at a time and step by step:
\* the body a handler receives, every lookup of a mint call on its own, the
\* instructions before complete(), signing, submitting, the confirmation and
\* the answer.  The builder is also called directly, as the tests do, with
\* the parameters the handlers never pass (txHash, utxosInput, receiver '').

MaxCalls == 2
MaxBatch == 15

Undefined == "undefined"
NoMetadata == [missing |-> TRUE]
NullItem == [null |-> TRUE]
NoQuantity == 0
Course == "c1"

\* !v of JavaScript for the strings a body carries
Falsy(v) == v \in {Undefined, ""}

\* ---- the adapter of a request: constructor, mesh.adapter lines 65-107
getChangeAddress == [kind |-> sdk, value |-> WalletAddress]

\* await of JavaScript: the value of a promise, any other value as it is
await(v) == [kind |-> "string", value |-> v.value]

NoAdapter == [none |-> TRUE]

\* A script with its parameters applied and the hash of a script are kept as
\* what they were made from. deserializeAddress decodes a bech32 string and
\* throws on every other value.
MeshAdapter(course, issuer) ==
    IF issuer.kind # "string" THEN [thrown |-> TRUE]
    ELSE LET pkh == pubKeyHash(issuer.value)
             stake == [stakeOf |-> issuer.value]
             storeScript == [title |-> "store", course |-> course, pkh |-> pkh, stake |-> stake]
             storeAddress == [scriptHash |-> storeScript, stake |-> stake]
             mintScript == [title |-> "mint", course |-> course, pkh |-> pkh, stake |-> stake,
                            store |-> storeAddress]
         IN [thrown |-> FALSE, policyId |-> mintScript, storeAddress |-> storeAddress]

StepIdle ==
    [op |-> "none", via |-> "none", body |-> [none |-> TRUE], params |-> <<>>,
     resolved |-> {}, found |-> <<>>, tx |-> EmptyTx, err |-> NoErr,
     txHash |-> NoHash, log |-> <<>>, sent |-> <<>>, adapter |-> NoAdapter,
     at |-> <<>>, stream |-> <<>>, order |-> <<>>]

\* request.body of POST /mint, /update, /burn
MintBodies ==
    [course : {Undefined, Course}, asset_name : {Undefined, "a"}, metadata : {NoMetadata, M1},
     quantity : {NoQuantity, 1}, receiver : {Undefined, "", WalletAddress}]
UpdateBodies ==
    [course : {Undefined, Course}, asset_name : {Undefined, "a"}, metadata : {NoMetadata, M1}]
BurnBodies ==
    [course : {Undefined, Course}, asset_name : {Undefined, "a"}, quantity : {NoQuantity, 0 - 1}]

\* request.body of POST /batch-mint: items is absent, not an array, or an array
Item(asset_name, metadata, receiver) ==
    [asset_name |-> asset_name, metadata |-> metadata, quantity |-> NoQuantity, receiver |-> receiver]
ItemA == Item("a", M2, WalletAddress)
ItemB == Item("b", M2, WalletAddress)
ItemLists ==
    {<<>>, <<ItemA>>, <<ItemA, ItemB>>,
     <<Item("a", M2, Undefined)>>, <<Item("a", NoMetadata, WalletAddress)>>,
     <<Item(Undefined, M2, WalletAddress)>>, <<ItemA, Item("b", M2, "")>>,
     <<NullItem>>, <<ItemA, NullItem>>,
     [i \in 1..MaxBatch |-> ItemA], [i \in 1..(MaxBatch + 1) |-> ItemA]}
BatchBodies ==
    [course : {Undefined, Course},
     items : {[kind |-> "undefined", list |-> <<>>], [kind |-> "string", list |-> <<>>]}
             \cup {[kind |-> "array", list |-> l] : l \in ItemLists}]

\* controller line 25
mintMissing(body) ==
    Falsy(body.asset_name) \/ body.metadata = NoMetadata \/ Falsy(body.receiver) \/ Falsy(body.course)
\* controller line 206
updateMissing(body) ==
    Falsy(body.asset_name) \/ body.metadata = NoMetadata \/ Falsy(body.course)
\* controller line 272
burnMissing(body) ==
    Falsy(body.asset_name) \/ body.quantity = NoQuantity \/ Falsy(body.course)

\* controller line 115
tooMany(items) == Len(items.list) > MaxBatch

\* controller line 122 for one item; reading a field of null throws
itemMissing(item) ==
    Falsy(item.asset_name) \/ item.metadata = NoMetadata \/ Falsy(item.receiver)

\* controller lines 109-127: 400, the TypeError of line 122, or "ok"
batchMintCheck(body) ==
    IF Falsy(body.course) \/ body.items.kind # "array" \/ Len(body.items.list) = 0 THEN "400"
    ELSE IF tooMany(body.items) THEN "400"
    ELSE LET l == body.items.list
             stop == {i \in 1..Len(l) : l[i] = NullItem \/ itemMissing(l[i])}
             first == CHOOSE i \in stop : \A j \in stop : i <= j
         IN IF stop = {} THEN "ok"
            ELSE IF l[first] = NullItem THEN "TypeError" ELSE "400"

\* controller lines 35-42, 132-137, 214-219, 280-285
mintParams(body) ==
    <<[assetName |-> body.asset_name, metadata |-> body.metadata,
       quantity |-> IF body.quantity = NoQuantity THEN 1 ELSE body.quantity,
       receiver |-> body.receiver]>>
batchMintParams(body) ==
    [i \in 1..Len(body.items.list) |->
        LET item == body.items.list[i]
        IN [assetName |-> item.asset_name, metadata |-> item.metadata,
            quantity |-> IF item.quantity = NoQuantity THEN 1 ELSE item.quantity,
            receiver |-> item.receiver]]
updateParams(body) ==
    <<[assetName |-> body.asset_name, metadata |-> body.metadata, txHash |-> NoHash]>>
burnParams(body) ==
    <<[assetName |-> body.asset_name, quantity |-> body.quantity, txHash |-> NoHash]>>

\* ---- errors and answers
NoMessage == [nomessage |-> TRUE]
NoRedeemer == [none |-> TRUE]

\* what the SDK throws (complete, signTx, submitTx): with a message or without
SdkErrors(kind) ==
    {[kind |-> kind, message |-> m] : m \in {[text |-> "sdk: " \o kind], NoMessage}}

\* error.message of the errors the builder throws itself
messageOf(err) ==
    CASE err.kind = "mixed" -> [text |-> "Assets already exist", names |-> err.names]
      [] err.kind = "exists" -> [text |-> "has been exist", name |-> err.name]
      [] err.kind = "StoreUtxoNotFound" -> [text |-> "Store UTXO not found"]
      [] err.kind = "NoUtxoForTx" -> [text |-> "No UTXOs found in getUtxoForTx method."]
      [] err.kind = "TypeError" -> [text |-> "Cannot read properties"]
      [] OTHER -> err.message

\* a slip of lines 98, 186, 252, 318: the message is not passed on
details_generic(err) == [text |-> "Unknown error"]

\* error.message || 'Unknown error'
details(err) == IF messageOf(err) # NoMessage THEN messageOf(err) ELSE [text |-> "Unknown error"]

Finish(r, rq) ==
    /\ pc' = [pc EXCEPT ![r] = "done"]
    /\ req' = [req EXCEPT ![r] = rq]

Respond(rq, status, det) == [rq EXCEPT !.sent = Append(@, [status |-> status, details |-> det])]

\* the catch of a handler; a direct caller gets the exception
Catch(r, rq, err) ==
    Finish(r, IF rq.via = "handler"
              THEN Respond([rq EXCEPT !.err = err], 500, details(err))
              ELSE [rq EXCEPT !.err = err])

Logged(rq, step) == [rq EXCEPT !.log = Append(@, step)]

\* ---- a call begins
StepFree(r) == r = 1 /\ pc[r] \in {"idle", "done"} /\ started < MaxCalls

Enter(r) ==
    /\ StepFree(r)
    /\ started' = started + 1
    /\ UNCHANGED <<ledger, txCount, overlaps, last, sdk>>

Quiet == UNCHANGED <<ledger, txCount, started, overlaps, last, sdk>>

HandlerCall(op, body) == [StepIdle EXCEPT !.op = op, !.via = "handler", !.body = body]
DirectCall(op, params) == [StepIdle EXCEPT !.op = op, !.via = "builder", !.params = params]

\* mesh.adapter lines 327-344: wallet, the caller's inputs, the lookups are issued
PubKeyIn(utxo) ==
    [txHash |-> utxo.input.txHash, outputIndex |-> utxo.input.outputIndex,
     redeemer |-> NoRedeemer, script |-> "none"]

mintEnter(r, rq, utxosInput) ==
    /\ pc' = [pc EXCEPT ![r] = "looking"]
    /\ req' = [req EXCEPT ![r] =
                 [Logged(rq, "build") EXCEPT
                     !.found = [i \in 1..Len(rq.params) |-> FALSE],
                     !.tx = [EmptyTx EXCEPT !.ins = [i \in 1..Len(utxosInput) |-> PubKeyIn(utxosInput[i])]]]]

\* update and burn: the builder is called, its callbacks have not run yet
builderEnter(r, rq) ==
    /\ pc' = [pc EXCEPT ![r] = "called"]
    /\ req' = [req EXCEPT ![r] = Logged(rq, "build")]

\* new MeshTxBuilder({meshWallet, course, issuer})
Constructed(rq, course, issuer) ==
    [Logged(rq, "construct") EXCEPT !.adapter = MeshAdapter(course, issuer)]

\* controller lines 20-66; the issuer is the awaited change address
mint(r, body) ==
    /\ Enter(r)
    /\ IF mintMissing(body)
       THEN Finish(r, Respond(HandlerCall("mint", body), 400, NoMessage))
       ELSE mintEnter(r, Constructed(Logged([HandlerCall("mint", body) EXCEPT
                                                !.params = mintParams(body)],
                                            "getChangeAddress"),
                                     body.course, await(getChangeAddress)), <<>>)

\* controller lines 104-157
batchMint(r, body) ==
    /\ Enter(r)
    /\ LET check == batchMintCheck(body)
           rq == HandlerCall("batchMint", body)
       IN IF check = "400" THEN Finish(r, Respond(rq, 400, NoMessage))
          ELSE IF check = "TypeError" THEN Catch(r, rq, [kind |-> "TypeError"])
          ELSE mintEnter(r, Constructed(Logged([rq EXCEPT !.params = batchMintParams(body)],
                                               "getChangeAddress"),
                                        body.course, await(getChangeAddress)), <<>>)

\* controller lines 203-236; the issuer is what getChangeAddress() returned
update(r, body) ==
    /\ Enter(r)
    /\ IF updateMissing(body)
       THEN Finish(r, Respond(HandlerCall("update", body), 400, NoMessage))
       ELSE LET rq == Constructed(Logged([HandlerCall("update", body) EXCEPT
                                             !.params = updateParams(body)],
                                         "getChangeAddress"),
                                  body.course, getChangeAddress)
            IN IF rq.adapter.thrown
               THEN \E e \in SdkErrors("deserializeAddress") : Catch(r, rq, e)
               ELSE builderEnter(r, rq)

\* controller lines 269-302; the issuer is what getChangeAddress() returned
burn(r, body) ==
    /\ Enter(r)
    /\ IF burnMissing(body)
       THEN Finish(r, Respond(HandlerCall("burn", body), 400, NoMessage))
       ELSE LET rq == Constructed(Logged([HandlerCall("burn", body) EXCEPT
                                             !.params = burnParams(body)],
                                         "getChangeAddress"),
                                  body.course, getChangeAddress)
            IN IF rq.adapter.thrown
               THEN \E e \in SdkErrors("deserializeAddress") : Catch(r, rq, e)
               ELSE builderEnter(r, rq)

\* request.body of GET /
ContractBodies == [course : {Undefined, Course}]

\* controller lines 334-376
contract(r, body) ==
    /\ Enter(r)
    /\ IF Falsy(body.course)
       THEN Finish(r, Respond(HandlerCall("contract", body), 400, NoMessage))
       ELSE LET rq == Constructed(Logged(HandlerCall("contract", body), "getChangeAddress"),
                                  body.course, getChangeAddress)
            IN IF rq.adapter.thrown
               THEN \E e \in SdkErrors("deserializeAddress") : Catch(r, rq, e)
               ELSE Finish(r, Respond(rq, 200, NoMessage))

\* ---- the builder called directly (src/unnamed/part_000)
DirectMintParams ==
    {<<it>> : it \in [assetName : Names, metadata : {M1, M2}, quantity : {1}, receiver : {""}]}
    \cup {<<[assetName |-> "a", metadata |-> M2, quantity |-> 1, receiver |-> ""],
           [assetName |-> n, metadata |-> M2, quantity |-> 1, receiver |-> ""]>> : n \in Names}
StepTxHashes == {NoHash} \cup 1..MaxCalls
DirectUpdateParams ==
    {<<it>> : it \in [assetName : Names, metadata : {M1}, txHash : StepTxHashes]}
DirectBurnParams ==
    {<<it>> : it \in [assetName : Names, quantity : {0 - 1}, txHash : StepTxHashes]}
UtxosInputs == {<<>>} \cup {<<u>> : u \in Range(getWalletUtxos)}

\* part_000 lines 23-27, 52-56, 79-83: the issuer is what getChangeAddress() returned
builderMint(r, params, utxosInput) ==
    /\ Enter(r)
    /\ LET rq == Constructed(DirectCall("mint", params), Course, getChangeAddress)
       IN IF rq.adapter.thrown
          THEN \E e \in SdkErrors("deserializeAddress") : Catch(r, rq, e)
          ELSE mintEnter(r, rq, utxosInput)

builderUpdate(r, params) ==
    /\ Enter(r)
    /\ LET rq == Constructed(DirectCall("update", params), Course, getChangeAddress)
       IN IF rq.adapter.thrown
          THEN \E e \in SdkErrors("deserializeAddress") : Catch(r, rq, e)
          ELSE builderEnter(r, rq)

builderBurn(r, params) ==
    /\ Enter(r)
    /\ LET rq == Constructed(DirectCall("burn", params), Course, getChangeAddress)
       IN IF rq.adapter.thrown
          THEN \E e \in SdkErrors("deserializeAddress") : Catch(r, rq, e)
          ELSE builderEnter(r, rq)

\* ---- MeshTxBuilder.mint, lines 336-429
\* the lookups of a list resolve one by one, in any order (in the order of
\* the list when it is longer than MaxList)
MayResolve(rq, i) ==
    /\ i \in 1..Len(rq.params) /\ i \notin rq.resolved
    /\ Len(rq.params) > MaxList => \A j \in 1..(i - 1) : j \in rq.resolved

\* lines 338-342 for one asset of the list
LookupResolve(r, i) ==
    /\ pc[r] = "looking"
    /\ MayResolve(req[r], i)
    /\ req' = [req EXCEPT
                 ![r].resolved = @ \cup {i},
                 ![r].found[i] = hasPlutusData(
                     getAddressUTXOAsset(StoreAddress, CIP68_100(req[r].params[i].assetName)))]
    /\ UNCHANGED pc
    /\ Quiet

\* a slip of line 336: the first lookup to resolve is enough (Promise.race)
AllResolved_first(rq) == rq.resolved # {}

\* await Promise.all(...) of line 336
AllResolved(rq) == rq.resolved = 1..Len(rq.params)

\* lines 346-354
MintDecide(r) ==
    /\ pc[r] = "looking"
    /\ AllResolved(req[r])
    /\ IF ~allExist(req[r].found) /\ ~allNew(req[r].found)
       THEN Catch(r, req[r], MixedError(req[r].params, req[r].found))
       ELSE /\ pc' = [pc EXCEPT ![r] = "looked"]
            /\ UNCHANGED req
    /\ Quiet

CallbackOrders(n) == IF n <= MaxList THEN Orders(n) ELSE {[i \in 1..n |-> i]}

\* lines 356-429: the callbacks, then the receivers' outputs
MintCallbacks(r) ==
    /\ pc[r] = "looked"
    /\ \E ord \in CallbackOrders(Len(req[r].params)) :
         LET items == [i \in 1..Len(req[r].params) |-> req[r].params[ord[i]]]
             exist == allExist(req[r].found)
             bad == SelectSeq(items, LAMBDA it : OwnerError(it) # NoErr)
             tx == MintTx(items, exist)
         IN IF exist /\ bad # <<>>
            THEN Catch(r, req[r], OwnerError(bad[1]))
            ELSE /\ pc' = [pc EXCEPT ![r] = "instr"]
                 /\ req' = [req EXCEPT ![r].tx = [tx EXCEPT !.ins = req[r].tx.ins \o @]]
    /\ Quiet

\* MeshTxBuilder.update, lines 463-487
UpdateCallbacks(r) ==
    /\ pc[r] = "called" /\ req[r].op = "update"
    /\ \E ord \in CallbackOrders(Len(req[r].params)) :
         LET items == [i \in 1..Len(req[r].params) |-> req[r].params[ord[i]]]
             bad == SelectSeq(items, LAMBDA it : StoreError(it) # NoErr)
         IN IF bad # <<>>
            THEN Catch(r, req[r], StoreError(bad[1]))
            ELSE /\ pc' = [pc EXCEPT ![r] = "instr"]
                 /\ req' = [req EXCEPT ![r].tx = UpdateTx(items)]
    /\ Quiet

\* MeshTxBuilder.burn, lines 526-583
BurnCallbacks(r) ==
    /\ pc[r] = "called" /\ req[r].op = "burn"
    /\ \E ord \in CallbackOrders(Len(req[r].params)) :
         LET items == [i \in 1..Len(req[r].params) |-> req[r].params[ord[i]]]
             bad == SelectSeq(items, LAMBDA it : StoreError(it) # NoErr)
         IN IF bad # <<>>
            THEN Catch(r, req[r], StoreError(bad[1]))
            ELSE /\ pc' = [pc EXCEPT ![r] = "instr"]
                 /\ req' = [req EXCEPT ![r].tx = BurnTx(items)]
    /\ Quiet

\* unsignedTx...complete() of lines 431-442, 489-502, 585-598
Complete(r) ==
    /\ pc[r] = "instr"
    /\ IF CanComplete(req[r].tx, getWalletUtxos)
       THEN /\ pc' = [pc EXCEPT ![r] = "built"]
            /\ req' = [req EXCEPT ![r].tx = complete(req[r].tx, getWalletUtxos)]
       ELSE \E e \in SdkErrors("complete") : Catch(r, req[r], e)
    /\ Quiet

\* ---- the handler after the builder: controller lines 69-92
signTx(r) ==
    /\ pc[r] = "built"
    /\ pc' = [pc EXCEPT ![r] = "signed"]
    /\ req' = [req EXCEPT ![r] = Logged(@, "sign")]
    /\ Quiet

signTxFails(r) ==
    /\ pc[r] = "built"
    /\ \E e \in SdkErrors("sign") : Catch(r, req[r], e)
    /\ Quiet

submitTx(r) ==
    /\ pc[r] = "signed"
    /\ LedgerValid(req[r].tx)
    /\ ledger' = ApplyTx(req[r].tx, txCount + 1)
    /\ txCount' = txCount + 1
    /\ pc' = [pc EXCEPT ![r] = "await"]
    /\ req' = [req EXCEPT ![r] = [Logged(@, "submit") EXCEPT !.txHash = txCount + 1]]
    /\ UNCHANGED <<started, overlaps, last, sdk>>

submitTxFails(r) ==
    /\ pc[r] = "signed"
    /\ \E e \in SdkErrors("submit") : Catch(r, req[r], e)
    /\ Quiet

\* a slip of lines 76-81: the handler does not wait for the confirmation
afterConfirmed_noWait == {"await", "confirmed"}

\* where the handler is when it answers 200: the callback has resolved the promise
afterConfirmed == {"confirmed"}

onTxConfirmed(r) ==
    /\ pc[r] = "await"
    /\ pc' = [pc EXCEPT ![r] = "confirmed"]
    /\ req' = [req EXCEPT ![r] = Logged(@, "confirm")]
    /\ Quiet

\* response.status(200).json of lines 86, 173, 244, 310
respond200(r) ==
    /\ pc[r] \in afterConfirmed
    /\ Finish(r, IF req[r].via = "handler"
                 THEN Respond(Logged(req[r], "respond"), 200, NoMessage)
                 ELSE Logged(req[r], "respond"))
    /\ Quiet

StepNext ==
    \E r \in Requests :
        \/ \E body \in MintBodies : mint(r, body)
        \/ \E body \in BatchBodies : batchMint(r, body)
        \/ \E body \in UpdateBodies : update(r, body)
        \/ \E body \in BurnBodies : burn(r, body)
        \/ \E body \in ContractBodies : contract(r, body)
        \/ \E params \in DirectMintParams : \E utxosInput \in UtxosInputs :
              builderMint(r, params, utxosInput)
        \/ \E params \in DirectUpdateParams : builderUpdate(r, params)
        \/ \E params \in DirectBurnParams : builderBurn(r, params)
        \/ \E i \in 1..(MaxBatch + 1) : LookupResolve(r, i)
        \/ MintDecide(r)
        \/ MintCallbacks(r)
        \/ UpdateCallbacks(r)
        \/ BurnCallbacks(r)
        \/ Complete(r)
        \/ signTx(r)
        \/ signTxFails(r)
        \/ submitTx(r)
        \/ submitTxFails(r)
        \/ onTxConfirmed(r)
        \/ respond200(r)

StepSpec == Init /\ [][StepNext]_vars

\* -------------------------------------- the callbacks, instruction by instruction
\* One call of the fluent builder: its name and its argument.
Instr(name, arg) == [i |-> name, arg |-> arg]

\* .mintPlutusScriptV3().mint(...).mintingScript(...).mintRedeemerValue(...)
MintChain(quantity, unit, redeemer) ==
    <<Instr("mintPlutusScriptV3", <<>>), Instr("mint", Asset(unit, quantity)),
      Instr("mintingScript", "mint"), Instr("mintRedeemerValue", redeemer)>>

\* .spendingPlutusScriptV3().txIn(...).txInInlineDatumPresent().txInRedeemerValue(...).txInScript(...)
SpendChain(utxo, redeemer) ==
    <<Instr("spendingPlutusScriptV3", <<>>), Instr("txIn", utxo.input),
      Instr("txInInlineDatumPresent", <<>>), Instr("txInRedeemerValue", redeemer),
      Instr("txInScript", "store")>>

\* .txOut(...) and .txOutInlineDatumValue(...)
OutChain(address, amount) == <<Instr("txOut", TxOut(address, amount, NoDatum))>>
DatumChain(datum) == <<Instr("txOutInlineDatumValue", datum)>>

\* lines 402-419
NewChain(item) ==
    <<Instr("txOutReceiverMap", item)>>
    \o MintChain(item.quantity, CIP68_222(item.assetName), mConStr0)
    \o MintChain(1, CIP68_100(item.assetName), mConStr0)
    \o OutChain(StoreAddress, <<Asset(CIP68_100(item.assetName), 1)>>)
    \o DatumChain(metadataToCip68(item.metadata))

\* lines 367-385
ExistingChain(item) ==
    <<Instr("txOutReceiverMap", item)>>
    \o MintChain(item.quantity, CIP68_222(item.assetName), mConStr0)

\* lines 472-485
UpdateChain(item) ==
    SpendChain(storeUtxoOf(item), mConStr0)
    \o OutChain(StoreAddress, <<Asset(CIP68_100(item.assetName), 1)>>)
    \o DatumChain(metadataToCip68(item.metadata))

\* lines 551-581
BurnChain(item) ==
    IF isFullBurn(item.quantity, heldAmount(item.assetName))
    THEN MintChain(item.quantity, CIP68_222(item.assetName), mConStr1)
         \o MintChain(0 - 1, CIP68_100(item.assetName), mConStr1)
         \o SpendChain(storeUtxoOf(item), mConStr1)
    ELSE MintChain(item.quantity, CIP68_222(item.assetName), mConStr1)
         \o OutChain(WalletAddress,
                     <<Asset(CIP68_222(item.assetName), heldAmount(item.assetName) + item.quantity)>>)

Segment(err, chain) == [err |-> err, emit |-> chain]

\* a callback of update that waits once more before it attaches the datum
UpdateSegments_awaitBeforeDatum(item) ==
    IF StoreError(item) # NoErr THEN <<Segment(StoreError(item), <<>>)>>
    ELSE <<Segment(NoErr, SpendChain(storeUtxoOf(item), mConStr0)
                          \o OutChain(StoreAddress, <<Asset(CIP68_100(item.assetName), 1)>>)),
           Segment(NoErr, DatumChain(metadataToCip68(item.metadata)))>>

\* lines 464-486: one await (466-467), then the whole chain
UpdateSegments(item) ==
    <<Segment(StoreError(item), IF StoreError(item) = NoErr THEN UpdateChain(item) ELSE <<>>)>>

\* What the callback of one item does after each of its awaits, up to the
\* next await or to its end: the error it throws or the calls it makes.
\* mint: awaits at lines 358 and (existing path) 363; update: at lines 466-467;
\* burn: at lines 528 and 544-545.
Segments(rq, item) ==
    CASE rq.op \in {"mint", "batchMint"} /\ allExist(rq.found) ->
            <<Segment(NoErr, <<>>),
              Segment(OwnerError(item),
                      IF OwnerError(item) = NoErr THEN ExistingChain(item) ELSE <<>>)>>
      [] rq.op \in {"mint", "batchMint"} /\ ~allExist(rq.found) ->
            <<Segment(NoErr, NewChain(item))>>
      [] rq.op = "update" -> UpdateSegments(item)
      [] rq.op = "burn" ->
            <<Segment(NoErr, <<>>),
              Segment(StoreError(item),
                      IF StoreError(item) = NoErr THEN BurnChain(item) ELSE <<>>)>>

\* the awaits each callback has passed
At(rq) == IF rq.at = <<>> THEN [i \in 1..Len(rq.params) |-> 0] ELSE rq.at

\* the callback of item i goes on after the await it was waiting at
Resume(r, i) ==
    /\ pc[r] \in {"looked", "called"}
    /\ i \in 1..Len(req[r].params)
    /\ LET rq == req[r]
           segs == Segments(rq, rq.params[i])
           k == At(rq)[i] + 1
       IN /\ k <= Len(segs)
          /\ IF segs[k].err # NoErr
             THEN Catch(r, rq, segs[k].err)
             ELSE /\ req' = [req EXCEPT ![r] =
                       [rq EXCEPT !.at = [At(rq) EXCEPT ![i] = k],
                                  !.stream = @ \o [j \in 1..Len(segs[k].emit) |->
                                                      [of |-> i, call |-> segs[k].emit[j]]],
                                  !.order = IF k = Len(segs) THEN Append(@, i) ELSE @]]
                  /\ UNCHANGED pc
    /\ Quiet

\* The builder keeps one mint, one input and one output under construction:
\* mint, txIn and txOut put the one before aside and begin a new one, every
\* other call changes the one under construction.
EmptyBuilder == [tx |-> EmptyTx, mintItem |-> <<>>, txInItem |-> <<>>, txOutItem |-> <<>>]

BuilderCall(b, c) ==
    CASE c.i = "mint" ->
            [b EXCEPT !.tx.mints = @ \o b.mintItem,
                      !.mintItem = <<[unit |-> c.arg.unit, quantity |-> c.arg.quantity,
                                      redeemer |-> NoRedeemer, script |-> "none"]>>]
      [] c.i = "mintingScript" /\ b.mintItem # <<>> -> [b EXCEPT !.mintItem[1].script = c.arg]
      [] c.i = "mintRedeemerValue" /\ b.mintItem # <<>> -> [b EXCEPT !.mintItem[1].redeemer = c.arg]
      [] c.i = "txIn" ->
            [b EXCEPT !.tx.ins = @ \o b.txInItem,
                      !.txInItem = <<[txHash |-> c.arg.txHash, outputIndex |-> c.arg.outputIndex,
                                      redeemer |-> NoRedeemer, script |-> "none"]>>]
      [] c.i = "txInRedeemerValue" /\ b.txInItem # <<>> -> [b EXCEPT !.txInItem[1].redeemer = c.arg]
      [] c.i = "txInScript" /\ b.txInItem # <<>> -> [b EXCEPT !.txInItem[1].script = c.arg]
      [] c.i = "txOut" ->
            [b EXCEPT !.tx.outs = @ \o b.txOutItem, !.txOutItem = <<c.arg>>]
      [] c.i = "txOutInlineDatumValue" /\ b.txOutItem # <<>> -> [b EXCEPT !.txOutItem[1].datum = c.arg]
      [] OTHER -> b

RECURSIVE BuilderRun(_, _)
BuilderRun(b, calls) ==
    IF calls = <<>> THEN b ELSE BuilderRun(BuilderCall(b, Head(calls)), Tail(calls))

\* the transaction body the builder holds after these calls
Assemble(ins, calls) ==
    LET b == BuilderRun([EmptyBuilder EXCEPT !.tx.ins = ins], calls)
    IN [b.tx EXCEPT !.mints = @ \o b.mintItem, !.ins = @ \o b.txInItem, !.outs = @ \o b.txOutItem]

\* lines 427-429: txOutReceiverMap.forEach, in the order the keys were set
ReceiverCalls(calls) ==
    LET pushed == SelectSeq(calls, LAMBDA c : c.i = "txOutReceiverMap")
        outs == ReceiverOuts([j \in 1..Len(pushed) |-> pushed[j].arg])
    IN [j \in 1..Len(outs) |-> Instr("txOut", outs[j])]

\* Promise.all of lines 356, 463, 526 resolves: every callback has ended
Gathered(r) ==
    /\ pc[r] \in {"looked", "called"}
    /\ \A i \in 1..Len(req[r].params) : At(req[r])[i] = Len(Segments(req[r], req[r].params[i]))
    /\ LET calls == [j \in 1..Len(req[r].stream) |-> req[r].stream[j].call]
       IN req' = [req EXCEPT ![r].tx = Assemble(req[r].tx.ins, calls \o ReceiverCalls(calls))]
    /\ pc' = [pc EXCEPT ![r] = "instr"]
    /\ Quiet

\* lists of two assets with different metadata
ChainMintParams ==
    {<<[assetName |-> "a", metadata |-> m, quantity |-> 1, receiver |-> ""],
       [assetName |-> "b", metadata |-> M2, quantity |-> 1, receiver |-> rcv]>> :
        m \in {M1, M2}, rcv \in {"", OtherAddress}}
ChainUpdateParams ==
    {<<[assetName |-> "a", metadata |-> M1, txHash |-> NoHash],
       [assetName |-> "b", metadata |-> M3, txHash |-> NoHash]>>}
ChainBurnParams ==
    {<<[assetName |-> "a", quantity |-> 0 - 1, txHash |-> NoHash],
       [assetName |-> "b", quantity |-> q, txHash |-> NoHash]>> : q \in {0 - 1, 1}}

ChainNext ==
    \E r \in Requests :
        \/ \E params \in ChainMintParams : builderMint(r, params, <<>>)
        \/ \E params \in ChainUpdateParams : builderUpdate(r, params)
        \/ \E params \in ChainBurnParams : builderBurn(r, params)
        \/ \E i \in 1..MaxList : LookupResolve(r, i)
        \/ MintDecide(r)
        \/ \E i \in 1..MaxList : Resume(r, i)
        \/ Gathered(r)
        \/ Complete(r)
        \/ signTx(r)
        \/ submitTx(r)
        \/ onTxConfirmed(r)
        \/ respond200(r)

ChainSpec == Init /\ [][ChainNext]_vars

\* ------------------------------------------------------ claims on the steps
\* a request to one of the four handlers that change state
Handled(r) == pc[r] # "idle" /\ req[r].via = "handler" /\ req[r].op # "contract"

\* what the claims call an unusable items value
BadItems(items) ==
    \/ items.kind # "array"
    \/ Len(items.list) = 0
    \/ Len(items.list) > 15
    \/ \E i \in 1..Len(items.list) :
          LET item == items.list[i]
          IN \/ item = NullItem
             \/ item.asset_name \in {Undefined, ""}
             \/ item.metadata = NoMetadata
             \/ item.receiver \in {Undefined, ""}

\* C11: batch-mint answers 400 when items is missing, not an array, empty,
\* longer than 15 or holds an item without asset_name, metadata or receiver,
\* and it has then made no wallet, provider or builder call: nothing is
\* looked up, built, signed or submitted.
C11_BatchRejectedBeforeChain ==
    [][\A r \in Requests :
         (/\ started' = started + 1
          /\ pc'[r] # "idle" /\ req'[r].op = "batchMint"
          /\ BadItems(req'[r].body.items)) =>
            /\ pc'[r] = "done"
            /\ Len(req'[r].sent) = 1 /\ req'[r].sent[1].status = 400
            /\ req'[r].log = <<>> /\ req'[r].tx = EmptyTx /\ req'[r].resolved = {}
            /\ ledger' = ledger /\ txCount' = txCount]_vars

\* the required fields of a body, as the handlers' documentation lists them
MissingField(op, body) ==
    \/ body.course \in {Undefined, ""}
    \/ op = "batchMint" /\ (body.items.kind # "array" \/ Len(body.items.list) = 0)
    \/ op # "batchMint" /\ body.asset_name \in {Undefined, ""}
    \/ op \in {"mint", "update"} /\ body.metadata = NoMetadata
    \/ op = "mint" /\ body.receiver \in {Undefined, ""}
    \/ op = "burn" /\ body.quantity = NoQuantity

\* C12: a request to mint, batch-mint, update or burn is answered exactly
\* once: 400 and no chain interaction when a required field of the body is
\* missing, 500 with the error's message as details when an error is thrown
\* while building, signing or submitting; it is never answered twice.
C12_OneResponsePerRequest ==
    \A r \in Requests :
        Handled(r) =>
            LET rq == req[r]
            IN /\ Len(rq.sent) <= 1
               /\ pc[r] = "done" <=> Len(rq.sent) = 1
               /\ MissingField(rq.op, rq.body) =>
                     /\ pc[r] = "done" /\ rq.sent[1].status = 400
                     /\ rq.log = <<>> /\ rq.tx = EmptyTx
               /\ rq.err # NoErr =>
                     /\ pc[r] = "done" /\ rq.sent[1].status = 500
                     /\ messageOf(rq.err) # NoMessage => rq.sent[1].details = messageOf(rq.err)
               /\ pc[r] = "done" /\ rq.sent[1].status = 500 => rq.err # NoErr

C12_Witness ==
    \E r \in Requests :
        /\ Handled(r) /\ pc[r] = "done"
        /\ req[r].err # NoErr /\ req[r].err.kind = "mixed"
        /\ req[r].sent = <<[status |-> 500, details |-> messageOf(req[r].err)]>>

IsPrefix(s, t) == Len(s) <= Len(t) /\ \A i \in 1..Len(s) : s[i] = t[i]

HandlerSteps == <<"build", "sign", "submit", "confirm", "respond">>

StepsOf(log) == SelectSeq(log, LAMBDA s : s \in Range(HandlerSteps))

\* C15: a handler builds, signs, submits, awaits the confirmation and answers
\* 200 in this order and each at most once; 200 is sent only after the
\* confirmation callback fired, and a request that waits for the confirmation
\* leaves the wait in no other way (there is no timeout).
C15_StepOrder ==
    [][\A r \in Requests :
         pc'[r] # "idle" /\ req'[r].op # "contract" =>
            /\ IsPrefix(StepsOf(req'[r].log), HandlerSteps)
            /\ (\E i \in 1..Len(req'[r].sent) : req'[r].sent[i].status = 200) =>
                   StepsOf(req'[r].log) = HandlerSteps
            /\ pc[r] = "await" =>
                   /\ req[r].sent = <<>>
                   /\ pc'[r] \in {"await", "confirmed"}
                   /\ pc'[r] = "confirmed" => req'[r].log = Append(req[r].log, "confirm")]_vars

C15_Witness ==
    \E r \in Requests :
        /\ Handled(r) /\ pc[r] = "done" /\ req[r].op = "update"
        /\ req[r].sent = <<[status |-> 200, details |-> NoMessage]>>
        /\ StepsOf(req[r].log) = HandlerSteps

\* the builder's mint has been called
MintCall(r) ==
    /\ pc[r] # "idle" /\ req[r].op \in {"mint", "batchMint"}
    /\ "build" \in Range(req[r].log)

\* C16: within a mint call the decision between new and existing is taken
\* when the lookup of every asset of the list has resolved, in whatever order
\* they resolve, and until then no input, mint action or output is in the
\* transaction under construction.
C16_NothingBeforeDecision ==
    \A r \in Requests :
        MintCall(r) =>
            /\ pc[r] # "looking" => req[r].resolved = 1..Len(req[r].params)
            /\ pc[r] = "looking" => req[r].tx = EmptyTx

\* C16 amended: as above, but the inputs the caller passed as utxosInput are
\* in the transaction before the lookups; no mint action, no output and no
\* other input is.
C16_DecisionAfterAllLookups ==
    \A r \in Requests :
        MintCall(r) =>
            /\ pc[r] # "looking" => req[r].resolved = 1..Len(req[r].params)
            /\ pc[r] = "looking" =>
                  /\ req[r].tx.mints = <<>> /\ req[r].tx.outs = <<>>
                  /\ \A i \in 1..Len(req[r].tx.ins) :
                        /\ req[r].tx.ins[i].script = "none"
                        /\ \E u \in Range(getWalletUtxos) :
                              u.input = [txHash |-> req[r].tx.ins[i].txHash,
                                         outputIndex |-> req[r].tx.ins[i].outputIndex]

C16_Witness ==
    \E r \in Requests :
        /\ MintCall(r) /\ pc[r] = "looked"
        /\ Len(req[r].params) = 2 /\ req[r].tx.ins # <<>>
        /\ req[r].found[1] /\ req[r].found[2]

\* --------------------------------------- more claims on concurrent requests
RefUnits == {CIP68_100(n) : n \in Names}

Requested(params, name) ==
    SumSeq([i \in 1..Len(params) |-> IF params[i].assetName = name THEN params[i].quantity ELSE 0])

\* C13: when the assets were created by a mint of new assets (the only
\* transaction so far), a later mint of the same names by the same issuer
\* is built, mints no reference token, spends and creates nothing at the
\* store address, and once accepted leaves the reference UTxOs as they were
\* and raises the user-token quantity by what was requested.
C13_MintExistingOnlyAddsUserTokens ==
    [][\A r \in Requests :
         /\ (/\ pc[r] = "looked" /\ pc'[r] # "looked" /\ txCount = 1
             /\ \A i \in 1..Len(req[r].found) : req[r].found[i]) =>
               /\ pc'[r] = "built"
               /\ \A i \in 1..Len(req'[r].tx.mints) : req'[r].tx.mints[i].unit \notin RefUnits
               /\ \A i \in 1..Len(req'[r].tx.outs) : req'[r].tx.outs[i].address # StoreAddress
               /\ req'[r].tx.ins = <<>>
         /\ (/\ pc[r] = "built" /\ pc'[r] = "await" /\ txCount = 1
             /\ req[r].op = "mint" /\ req[r].branch = "existing") =>
               \A n \in Names :
                  /\ HoldersIn(ledger', StoreAddress, CIP68_100(n))
                        = HoldersIn(ledger, StoreAddress, CIP68_100(n))
                  /\ TotalIn(ledger', CIP68_222(n))
                        = TotalIn(ledger, CIP68_222(n)) + Requested(req[r].params, n)]_vars

UnspentIn(L, ref) == \E i \in 1..Len(L) : L[i].input = ref

ScriptRefs(tx) ==
    {[txHash |-> tx.ins[i].txHash, outputIndex |-> tx.ins[i].outputIndex] : i \in 1..Len(tx.ins)}

Spender(q) == pc[q] = "built" /\ req[q].op \in {"update", "burn"} /\ req[q].tx.ins # <<>>

ItemsTo(params, address) == SelectSeq(params, LAMBDA it : EffectiveReceiver(it) = address)

Count(s, x) == Len(SelectSeq(s, LAMBDA y : y = x))

\* C17: a built mint transaction, on the new and on the existing path and for
\* every order of the callbacks, has exactly one user-token output for every
\* distinct effective receiver of the list, and that output lists one entry
\* with the requested quantity for each item sent to that receiver.
C17_OneOutputPerReceiver ==
    \A r \in Requests :
        pc[r] = "built" /\ req[r].op = "mint" =>
            LET outs == SelectSeq(req[r].tx.outs, LAMBDA o : o.datum = NoDatum)
                params == req[r].params
                receivers == {EffectiveReceiver(params[i]) : i \in 1..Len(params)}
            IN /\ \A i \in 1..Len(outs) : outs[i].address \in receivers
               /\ \A a \in receivers :
                     LET mine == SelectSeq(outs, LAMBDA o : o.address = a)
                         items == ItemsTo(params, a)
                         want == [i \in 1..Len(items) |->
                                    [unit |-> CIP68_222(items[i].assetName),
                                     quantity |-> items[i].quantity]]
                     IN /\ Len(mine) = 1
                        /\ Len(mine[1].amount) = Len(want)
                        /\ \A i \in 1..Len(want) :
                              Count(mine[1].amount, want[i]) = Count(want, want[i])

C17_Witness ==
    \E r \in Requests :
        /\ pc[r] = "built" /\ req[r].op = "mint" /\ Len(req[r].params) = 2
        /\ EffectiveReceiver(req[r].params[1]) = EffectiveReceiver(req[r].params[2])
        /\ req[r].params[1].assetName # req[r].params[2].assetName
        /\ req[r].params[1].receiver = ""

Alternatives(tx) ==
    {tx.mints[i].redeemer.alternative : i \in 1..Len(tx.mints)}
    \cup {tx.ins[i].redeemer.alternative : i \in 1..Len(tx.ins)}

\* C20: every mint action of mint and the spend of update carry the redeemer
\* of constructor 0 without arguments, every mint action and spend of burn,
\* full or partial, the redeemer of constructor 1; no built transaction mixes
\* the two.
C20_RedeemerVariants ==
    \A r \in Requests :
        pc[r] = "built" =>
            LET tx == req[r].tx
                first == [alternative |-> 0, fields |-> <<>>]
            IN /\ req[r].op = "mint" =>
                     /\ tx.mints # <<>>
                     /\ \A i \in 1..Len(tx.mints) : tx.mints[i].redeemer = first
               /\ req[r].op = "update" =>
                     /\ tx.ins # <<>>
                     /\ \A i \in 1..Len(tx.ins) : tx.ins[i].redeemer = first
               /\ req[r].op = "burn" =>
                     /\ tx.mints # <<>>
                     /\ \A i \in 1..Len(tx.mints) : tx.mints[i].redeemer.alternative = 1
                     /\ \A i \in 1..Len(tx.ins) : tx.ins[i].redeemer.alternative = 1
               /\ Cardinality(Alternatives(tx)) = 1

C20_Witness ==
    \E r \in Requests :
        /\ pc[r] = "built" /\ req[r].op = "burn" /\ req[r].branch = "full"
        /\ req[r].tx.ins # <<>> /\ Len(req[r].tx.mints) = 2

\* ------------------------------------------- claims on locating the UTxO
Spends(r) == pc[r] = "instr" /\ req[r].op \in {"update", "burn"}

\* the unit each script input of an update or burn transaction is spent for:
\* update pairs every input with the output that re-creates the token, a full
\* burn pairs it with the burning of the reference token
SpentFor(rq) ==
    IF rq.op = "update"
    THEN [i \in 1..Len(rq.tx.ins) |-> rq.tx.outs[i].amount[1].unit]
    ELSE LET burnt == SelectSeq(rq.tx.mints, LAMBDA m : m.unit \in RefUnits)
         IN [i \in 1..Len(rq.tx.ins) |-> burnt[i].unit]

AtStore(L, unit) ==
    {i \in 1..Len(L) : L[i].address = StoreAddress /\ unit \in DOMAIN L[i].amount}

\* the transaction of this hash left a reference UTxO of the unit at the store
RefLeftBy(txHash, unit) ==
    \E i \in AtStore(ledger, unit) : ledger[i].input.txHash = txHash

\* C18: the UTxO that update or a full burn spends for an asset is a UTxO at
\* the store address that holds the reference token of that asset, whether it
\* was located by the asset or by a transaction hash.
C18_SpendsOwnReference ==
    \A r \in Requests :
        Spends(r) =>
            \A i \in 1..Len(req[r].tx.ins) :
                LET u == UtxoAt(req[r].tx.ins[i].txHash, req[r].tx.ins[i].outputIndex)
                IN RefLeftBy(req[r].tx.ins[i].txHash, SpentFor(req[r])[i]) =>
                      /\ u # NoUtxo
                      /\ u.address = StoreAddress
                      /\ SpentFor(req[r])[i] \in DOMAIN u.amount

Located(L, item) ==
    IF item.txHash # NoHash
    THEN \E i \in 1..Len(L) : L[i].address = StoreAddress /\ L[i].input.txHash = item.txHash
    ELSE AtStore(L, CIP68_100(item.assetName)) # {}

Newest(L, unit) == L[CHOOSE i \in AtStore(L, unit) : \A j \in AtStore(L, unit) : j <= i]

\* C19: the lookup by asset gives the last UTxO of the provider's list and
\* none when the list is empty, the lookup by transaction hash throws when
\* no UTxO at the address has the hash; an update or burn that cannot locate
\* the UTxO of its asset by the route it takes throws and completes nothing.
C19_LookupOrThrow ==
    [][\A r \in Requests :
         (/\ pc[r] = "called" /\ pc'[r] # "called"
          /\ Len(req[r].params) = 1) =>
            LET item == req[r].params[1]
                unit == CIP68_100(item.assetName)
            IN /\ ~Located(ledger, item) =>
                     /\ pc'[r] = "done"
                     /\ req'[r].err.kind =
                           (IF item.txHash # NoHash THEN "NoUtxoForTx" ELSE "StoreUtxoNotFound")
                     /\ req'[r].tx = EmptyTx
                     /\ ledger' = ledger
               /\ Located(ledger, item) => pc'[r] = "instr"
               /\ (pc'[r] = "instr" /\ item.txHash = NoHash /\ req'[r].tx.ins # <<>>) =>
                     /\ Len(req'[r].tx.ins) = 1
                     /\ req'[r].tx.ins[1].txHash = Newest(ledger, unit).input.txHash
                     /\ req'[r].tx.ins[1].outputIndex = Newest(ledger, unit).input.outputIndex]_vars

C19_Witness ==
    \E r \in Requests :
        /\ Spends(r) /\ req[r].op = "update" /\ req[r].params[1].txHash = NoHash
        /\ Cardinality(AtStore(ledger, CIP68_100(req[r].params[1].assetName))) = 2
        /\ req[r].tx.ins[1].outputIndex = 1

\* ------------------------------------------------ claim on burnt quantities
\* C23: whatever quantity is requested and whatever amount is held, a built
\* burn transaction mints a user-token quantity below zero, and the output
\* that returns the balance in the partial branch carries a quantity from 1 up
\* to the held amount.
C23_BurnQuantitiesInRange ==
    \A r \in Requests :
        pc[r] = "built" /\ req[r].op = "burn" =>
            LET rq == req[r]
                partial == {i \in 1..Len(rq.params) : (0 - rq.params[i].quantity) # rq.held[i]}
            IN /\ \A j \in 1..Len(rq.tx.mints) :
                     rq.tx.mints[j].unit \notin RefUnits => rq.tx.mints[j].quantity < 0
               /\ \A j \in 1..Cardinality(partial) :
                     \E i \in partial :
                        /\ rq.tx.outs[j].amount[1].unit = CIP68_222(rq.params[i].assetName)
                        /\ rq.tx.outs[j].amount[1].quantity \in 1..rq.held[i]

\* ------------------------------------------- claim on the derived scripts
\* C21: for one course and one wallet the update, burn and contract handlers
\* derive the policy id and the store address that the mint and batch-mint
\* handlers derive: each of them constructs its adapter, and with the same
\* result as a mint handler would for the course of the request.
C21_SameDerivation ==
    \A r \in Requests :
        (/\ pc[r] # "idle" /\ req[r].via = "handler"
         /\ req[r].op \in {"update", "burn", "contract"}
         /\ "construct" \in Range(req[r].log)) =>
            req[r].adapter = MeshAdapter(req[r].body.course, await(getChangeAddress))

\* ------------------------------------------------- claim on the callbacks
\* C22: the callbacks of a list run interleaved at their awaits on one
\* builder, yet the calls of each asset form one uninterrupted group, so the
\* transaction is the one the callbacks would build one after the other in
\* the order they ended: each datum on the store output of its own asset,
\* each script and redeemer on its own mint action or input.
C22_GroupsContiguous ==
    \A r \in Requests :
        pc[r] = "instr" =>
            LET rq == req[r]
                items == [k \in 1..Len(rq.order) |-> rq.params[rq.order[k]]]
                whole == IF rq.op = "mint" THEN MintTx(items, allExist(rq.found))
                         ELSE IF rq.op = "update" THEN UpdateTx(items)
                         ELSE BurnTx(items)
            IN /\ Len(rq.order) = Len(rq.params)
               /\ \A p, q, s \in 1..Len(rq.stream) :
                     p < q /\ q < s /\ rq.stream[p].of = rq.stream[s].of =>
                        rq.stream[q].of = rq.stream[p].of
               /\ rq.tx = whole
               /\ \A j \in 1..Len(rq.tx.outs) :
                     rq.tx.outs[j].address = StoreAddress =>
                        \E i \in 1..Len(rq.params) :
                           /\ rq.tx.outs[j].amount = <<Asset(CIP68_100(rq.params[i].assetName), 1)>>
                           /\ rq.tx.outs[j].datum = metadataToCip68(rq.params[i].metadata)
               /\ \A j \in 1..Len(rq.tx.mints) :
                     rq.tx.mints[j].script = "mint" /\ rq.tx.mints[j].redeemer # NoRedeemer
               /\ \A j \in 1..Len(rq.tx.ins) :
                     rq.tx.ins[j].script = "store" /\ rq.tx.ins[j].redeemer # NoRedeemer

C22_Witness ==
    \E r \in Requests :
        /\ pc[r] = "instr" /\ req[r].op = "mint" /\ allExist(req[r].found)
        /\ req[r].order = <<2, 1>>
        /\ \E j \in 1..Len(req[r].stream) : req[r].stream[j].of = 2
====
